---- MODULE Spec2Model ----
(***************************************************************************)
(* Model of the Browser-Use launcher, src/run_browser_automation.py:       *)
(* the credentials file (.env), the process environment (os.environ),      *)
(* update_env_file, get_llm_instance and run_automation_task; and of the   *)
(* two setup scripts, src/browser_use_setup.py and                         *)
(* src/termux_browser_use_setup.py: their step lists, failed_steps and the *)
(* end-of-setup report.                                                    *)
(*                                                                         *)
(* Text is modelled as a sequence of tokens.  A token is either one of the *)
(* variable names (kept whole, since no name is a prefix of another), one  *)
(* of the punctuation characters "=", "#", " ", the word "export", or a    *)
(* value character ("a", "b", "1").  The .env file is what readlines()     *)
(* returns: a sequence of lines, each with its text and whether it ends in *)
(* a newline.  The file is assumed to be the one python-dotenv finds       *)
(* (the launcher is started from the directory that holds it).             *)
(***************************************************************************)
EXTENDS Integers, Sequences, FiniteSets, TLC

VARIABLES
    envFile,    \* the .env file: [exists, lines]
    environ,    \* os.environ restricted to the variables the launcher reads
    pc,         \* position of the launcher / of the function under study
    task,       \* run_automation_task: the task argument
    headless,   \* run_automation_task: the headless argument
    llm,        \* run_automation_task: local llm (the selected handle) or NoLlm
    browser,    \* run_automation_task: local browser or NoObj
    agent,      \* run_automation_task: local agent or NoObj
    agentResult,\* what agent.arun() produced (NoResult before it completes)
    ret,        \* what run_automation_task returned (NoResult before it returns)
    err,        \* the exception caught by run_automation_task, or "none"
    printed,    \* the outcome line printed by run_automation_task, or "none"
    nSelect,    \* calls of get_llm_instance in the current invocation
    nBrowser,   \* Browser objects constructed in the current invocation
    nAgent,     \* Agent objects constructed in the current invocation
    nRun,       \* calls of agent.arun() in the current invocation
    nAwait,     \* awaits completed in the current invocation
    phases,     \* the phases the current invocation went through
    caller,     \* who awaits run_automation_task: "predefined", "interactive" or "none"
    preFile,    \* update_env_file: the file as it was before the last call
    updKey,     \* update_env_file: key_name of the last call (a token) or "none"
    updVal,     \* update_env_file: key_value of the last call
    selOut,     \* get_llm_instance: outcome of the last call
    notice,     \* main: the line it printed before returning, or "none"
    keysOk,     \* what setup_api_keys returned to the caller that tests it, or "none"
    installOk,  \* what check_installation returned to main, or "none"
    script,     \* the setup script that runs: "pc", "termux" or "none"
    envOk,      \* check_termux_environment: "unchecked", "yes" or "no"
    stepNo,     \* setup: how many steps of the steps list were called
    failedSteps,\* setup: failed_steps
    cmdFailed,  \* setup: the steps whose installation did not succeed
    invoked,    \* setup: the steps that ran an external command
    written,    \* setup: the files written so far
    report,     \* setup: the end-of-setup report: "none", "complete" or "issues"
    uvOnPath    \* setup on a PC: whether the command uv is found

vars == <<envFile, environ, pc, task, headless, llm, browser, agent, agentResult,
          ret, err, printed, nSelect, nBrowser, nAgent, nRun, nAwait, phases,
          caller, preFile, updKey, updVal, selOut, notice, keysOk, installOk, script,
          envOk,          stepNo, failedSteps, cmdFailed, invoked, written, report, uvOnPath>>

taskVars == <<task, headless, llm, browser, agent, agentResult, ret, err, printed,
              nSelect, nBrowser, nAgent, nRun, nAwait, phases, caller>>

updVars == <<preFile, updKey, updVal>>

setupVars == <<script, envOk, stepNo, failedSteps, cmdFailed, invoked, written,
               report, uvOnPath>>

(***************************************************************************)
(* Bounds of the model.                                                    *)
(***************************************************************************)
MaxLines == 3        \* lines of a .env file given to update_env_file
MaxSelLines == 1     \* lines of a .env file given to get_llm_instance alone
MaxUserLines == 1    \* lines of a .env file the user of the launcher keeps

(***************************************************************************)
(* Names.                                                                  *)
(***************************************************************************)
GEMINI == "GEMINI_API_KEY"
GROQ == "GROQ_API_KEY"
OPENAI == "OPENAI_API_KEY"
ANTHROPIC == "ANTHROPIC_API_KEY"
SLOW_MO == "BROWSER_SLOW_MO"

ApiKeys == {GEMINI, GROQ, OPENAI, ANTHROPIC}
EnvVars == ApiKeys \cup {SLOW_MO}

\* os.getenv returns None for a variable that is not set
Unset == <<"<unset>">>
SecretA == <<"a">>
SecretB == <<"b">>
Empty == <<>>
Digits == {"0", "1", "2", "6"}

\* Python truthiness of an os.getenv result: None and "" are false
Truthy(v) == v # Unset /\ v # Empty

NoLlm == [cls |-> "none", model |-> "none", api_key |-> Unset, provider |-> "none"]
NoObj == [made |-> FALSE]
NoResult == "<no result>"
None == "None"

Min(S) == CHOOSE x \in S : \A y \in S : x <= y
Max(S) == CHOOSE x \in S : \A y \in S : x >= y

(***************************************************************************)
(* Text helpers.                                                           *)
(***************************************************************************)
\* str.startswith
StartsWith(text, prefix) ==
    /\ Len(text) >= Len(prefix)
    /\ SubSeq(text, 1, Len(prefix)) = prefix

Drop(s, n) == SubSeq(s, n + 1, Len(s))

\* number of leading tokens of s that belong to S
RECURSIVE LeadLen(_, _)
LeadLen(s, S) ==
    IF s = <<>> \/ Head(s) \notin S THEN 0 ELSE 1 + LeadLen(Tail(s), S)

\* number of trailing tokens of s that belong to S
RECURSIVE TrailLen(_, _)
TrailLen(s, S) ==
    IF s = <<>> \/ s[Len(s)] \notin S THEN 0
    ELSE 1 + TrailLen(SubSeq(s, 1, Len(s) - 1), S)

Blank == {" "}
SkipWs(s) == Drop(s, LeadLen(s, Blank))
RStrip(s) == SubSeq(s, 1, Len(s) - TrailLen(s, Blank))

(***************************************************************************)
(* The .env file as the file system holds it.                              *)
(* f.readlines() gives the lines with their line ends; f.writelines(ls)    *)
(* writes the concatenation of ls, so a string of ls that does not end in  *)
(* a newline runs into the one written after it.                           *)
(***************************************************************************)
NoFile == [exists |-> FALSE, lines |-> <<>>]
FileOf(ls) == [exists |-> TRUE, lines |-> ls]
Line(text, nl) == [text |-> text, nl |-> nl]

ReadLines(f) == f.lines

RECURSIVE WriteLines(_)
WriteLines(ls) ==
    IF Len(ls) <= 1 THEN ls
    ELSE IF ls[1].nl THEN <<ls[1]>> \o WriteLines(Tail(ls))
    ELSE WriteLines(<<Line(ls[1].text \o ls[2].text, ls[2].nl)>> \o Drop(ls, 2))

\* a file's lines are well formed when only the last may lack its newline
WellFormed(ls) ==
    /\ \A i \in 1..(Len(ls) - 1) : ls[i].nl
    /\ \A i \in 1..Len(ls) : ls[i].nl \/ ls[i].text # <<>>

\* the files of at most n lines whose texts are drawn from texts
FilesOver(texts, n) ==
    {FileOf(ls) : ls \in {x \in UNION {[1..m -> [text : texts, nl : BOOLEAN]] : m \in 0..n} :
                             WellFormed(x)}}

(***************************************************************************)
(* python-dotenv: the binding a line of the file states (parse_binding).   *)
(* NoBinding stands for a line that binds no key (blank, comment, error);  *)
(* a key without "=" is bound to None (Unset), which load_dotenv skips.    *)
(***************************************************************************)
KeyStop == {"=", "#", " "}
NoBinding == [key |-> <<>>, value |-> Unset]

\* _export: the word export followed by whitespace
AfterExport(s) ==
    IF Len(s) >= 2 /\ s[1] = "export" /\ s[2] = " " THEN SkipWs(Tail(s)) ELSE s

\* re.sub(r"\s+#.*", "", part): cut at the first whitespace run followed by #
RECURSIVE CutComment(_)
CutComment(s) ==
    IF s = <<>> THEN s
    ELSE IF Head(s) = " " /\ SkipWs(s) # <<>> /\ Head(SkipWs(s)) = "#" THEN <<>>
    ELSE <<Head(s)>> \o CutComment(Tail(s))

\* parse_value for an unquoted value (no quote character is in the alphabet)
UnquotedValue(s) == IF s = <<>> THEN Empty ELSE RStrip(CutComment(s))

\* the rest of a line after a binding: an optional comment, then the line end
EndsLine(s) == SkipWs(s) = <<>> \/ Head(SkipWs(s)) = "#"

ParseBinding(text) ==
    LET s1 == AfterExport(SkipWs(text))
        n == LeadLen(s1, {t \in {s1[i] : i \in 1..Len(s1)} : t \notin KeyStop})
        key == SubSeq(s1, 1, n)
        s2 == SkipWs(Drop(s1, n))
    IN  IF s1 = <<>> \/ n = 0 THEN NoBinding
        ELSE IF s2 # <<>> /\ Head(s2) = "="
             THEN [key |-> key, value |-> UnquotedValue(SkipWs(Tail(s2)))]
        ELSE IF EndsLine(s2) THEN [key |-> key, value |-> Unset]
        ELSE NoBinding

\* DotEnv.dict(): the last binding of a key wins
Binds(f, k) == {i \in 1..Len(f.lines) : ParseBinding(f.lines[i].text).key = <<k>>}
FileValue(f, k) == ParseBinding(f.lines[Max(Binds(f, k))].text).value

\* load_dotenv(override): set_as_environment_variables
LoadDotenv(env, f, override) ==
    IF ~f.exists THEN env
    ELSE [k \in DOMAIN env |->
            IF /\ Binds(f, k) # {}
               /\ FileValue(f, k) # Unset
               /\ (override \/ env[k] = Unset)
            THEN FileValue(f, k)
            ELSE env[k]]

(***************************************************************************)
(* update_env_file(key_name, key_value)                                    *)
(***************************************************************************)
KeyLine(k, v) == Line(<<k, "=">> \o v, TRUE)

\* the lines that start with "key_name="
Matches(ls, k) == {i \in 1..Len(ls) : StartsWith(ls[i].text, <<k, "=">>)}

\* variant: the loop without its break
ReplaceAllMatches(ls, k, v) ==
    IF Matches(ls, k) # {}
    THEN [i \in 1..Len(ls) |-> IF i \in Matches(ls, k) THEN KeyLine(k, v) ELSE ls[i]]
    ELSE Append(ls, KeyLine(k, v))

\* the loop over enumerate(lines) with its break, then the append
UpdatedLines(ls, k, v) ==
    IF Matches(ls, k) # {}
    THEN [ls EXCEPT ![Min(Matches(ls, k))] = KeyLine(k, v)]
    ELSE Append(ls, KeyLine(k, v))

update_env_file(f, k, v) ==
    IF f.exists THEN FileOf(WriteLines(UpdatedLines(ReadLines(f), k, v))) ELSE f

(***************************************************************************)
(* get_llm_instance()                                                      *)
(* lib is what happens when the chosen provider's client library is        *)
(* loaded: the import succeeds, or it fails and pip installs the library,  *)
(* or pip fails (subprocess.run(..., check=True) raises).  What is         *)
(* installed is outside the program, so it is an input of each call.       *)
(***************************************************************************)
LibOutcomes == {"imported", "installed", "install_failed"}

Returned(h) == [ok |-> TRUE, llm |-> h, error |-> "none"]
Raised(e) == [ok |-> FALSE, llm |-> NoLlm, error |-> e]
NoCall == [ok |-> FALSE, llm |-> NoLlm, error |-> "not called"]

NoKeyError == "ValueError: No valid API key found. Please set up an API key first."
InstallError == "CalledProcessError"

\* try: import, construct; except ImportError: pip install, import, construct
Client(lib, cls, model, key, provider) ==
    IF lib = "install_failed" THEN Raised(InstallError)
    ELSE Returned([cls |-> cls, model |-> model, api_key |-> key, provider |-> provider])

\* load_dotenv(override=True)
ReloadedEnv(env, f) == LoadDotenv(env, f, TRUE)

\* variant: a variable counts as configured as soon as it is set ("is not None")
SelectFromIsSet(env, lib) ==
    IF env[GEMINI] # Unset
    THEN Client(lib, "ChatGoogleGenerativeAI", "gemini-1.5-flash", env[GEMINI], "Gemini (FREE)")
    ELSE IF env[GROQ] # Unset
    THEN Client(lib, "ChatGroq", "mixtral-8x7b-32768", env[GROQ], "Groq (FREE)")
    ELSE IF env[OPENAI] # Unset
    THEN Client(lib, "ChatOpenAI", "gpt-4", env[OPENAI], "OpenAI GPT-4")
    ELSE IF env[ANTHROPIC] # Unset
    THEN Client(lib, "ChatAnthropic", "claude-3-sonnet-20240229", env[ANTHROPIC], "Claude 3")
    ELSE Raised(NoKeyError)

\* variant: the branches in the order of the api_keys dictionary of setup_api_keys
SelectFromDictOrder(env, lib) ==
    IF Truthy(env[GEMINI])
    THEN Client(lib, "ChatGoogleGenerativeAI", "gemini-1.5-flash", env[GEMINI], "Gemini (FREE)")
    ELSE IF Truthy(env[OPENAI])
    THEN Client(lib, "ChatOpenAI", "gpt-4", env[OPENAI], "OpenAI GPT-4")
    ELSE IF Truthy(env[ANTHROPIC])
    THEN Client(lib, "ChatAnthropic", "claude-3-sonnet-20240229", env[ANTHROPIC], "Claude 3")
    ELSE IF Truthy(env[GROQ])
    THEN Client(lib, "ChatGroq", "mixtral-8x7b-32768", env[GROQ], "Groq (FREE)")
    ELSE Raised(NoKeyError)

\* variant: without a key the chain falls back to the first provider
SelectFromFallback(env, lib) ==
    IF Truthy(env[GROQ])
    THEN Client(lib, "ChatGroq", "mixtral-8x7b-32768", env[GROQ], "Groq (FREE)")
    ELSE IF Truthy(env[OPENAI])
    THEN Client(lib, "ChatOpenAI", "gpt-4", env[OPENAI], "OpenAI GPT-4")
    ELSE IF Truthy(env[ANTHROPIC])
    THEN Client(lib, "ChatAnthropic", "claude-3-sonnet-20240229", env[ANTHROPIC], "Claude 3")
    ELSE Client(lib, "ChatGoogleGenerativeAI", "gemini-1.5-flash", env[GEMINI], "Gemini (FREE)")

\* the if / elif chain over os.getenv
SelectFrom(env, lib) ==
    IF Truthy(env[GEMINI])
    THEN Client(lib, "ChatGoogleGenerativeAI", "gemini-1.5-flash", env[GEMINI], "Gemini (FREE)")
    ELSE IF Truthy(env[GROQ])
    THEN Client(lib, "ChatGroq", "mixtral-8x7b-32768", env[GROQ], "Groq (FREE)")
    ELSE IF Truthy(env[OPENAI])
    THEN Client(lib, "ChatOpenAI", "gpt-4", env[OPENAI], "OpenAI GPT-4")
    ELSE IF Truthy(env[ANTHROPIC])
    THEN Client(lib, "ChatAnthropic", "claude-3-sonnet-20240229", env[ANTHROPIC], "Claude 3")
    ELSE Raised(NoKeyError)

get_llm_instance(env, f, lib) == SelectFrom(ReloadedEnv(env, f), lib)

(***************************************************************************)
(* State outside the function under study.                                 *)
(***************************************************************************)
TaskIdle ==
    /\ task = "none"
    /\ headless = FALSE
    /\ llm = NoLlm
    /\ browser = NoObj
    /\ agent = NoObj
    /\ agentResult = NoResult
    /\ ret = NoResult
    /\ err = "none"
    /\ printed = "none"
    /\ nSelect = 0
    /\ nBrowser = 0
    /\ nAgent = 0
    /\ nRun = 0
    /\ nAwait = 0
    /\ phases = <<>>
    /\ caller = "none"

UpdIdle ==
    /\ preFile = NoFile
    /\ updKey = "none"
    /\ updVal = Empty

SetupIdle ==
    /\ script = "none"
    /\ envOk = "unchecked"
    /\ stepNo = 0
    /\ failedSteps = <<>>
    /\ cmdFailed = {}
    /\ invoked = {}
    /\ written = {}
    /\ report = "none"
    /\ uvOnPath = TRUE

(***************************************************************************)
(* update_env_file on its own: every file of at most MaxLines lines over   *)
(* UpdLineTexts, every key of UpdKeys and value of UpdValues.              *)
(***************************************************************************)
UpdLineTexts ==
    {<<k, "=">> \o v : k \in {GEMINI, OPENAI}, v \in {Empty, SecretA}}
    \cup {<<>>,
          <<"#", " ", GEMINI, "=", "a">>,
          <<"export", " ", GEMINI, "=", "b">>,
          <<GEMINI, " ", "=", "b">>}
UpdFiles == FilesOver(UpdLineTexts, MaxLines) \cup {NoFile}
UpdKeys == {GEMINI, OPENAI, GROQ}
UpdValues == {SecretA, SecretB}

InitUpd ==
    /\ envFile \in UpdFiles
    /\ environ = [k \in EnvVars |-> Unset]
    /\ pc = "upd_ready"
    /\ selOut = NoCall
    /\ TaskIdle
    /\ UpdIdle
    /\ SetupIdle
    /\ notice = "none"
    /\ keysOk = "none"
    /\ installOk = "none"

UpdCall(k, v) ==
    /\ pc = "upd_ready"
    /\ preFile' = envFile
    /\ updKey' = k
    /\ updVal' = v
    /\ envFile' = update_env_file(envFile, k, v)
    /\ pc' = "upd_done"
    /\ UNCHANGED <<environ, selOut>>
    /\ UNCHANGED taskVars
    /\ UNCHANGED setupVars
    /\ UNCHANGED <<notice, keysOk, installOk>>

\* the same call made a second time, on the file the first call left
UpdAgain ==
    /\ pc = "upd_done"
    /\ preFile' = envFile
    /\ envFile' = update_env_file(envFile, updKey, updVal)
    /\ pc' = "upd_twice"
    /\ UNCHANGED <<environ, selOut, updKey, updVal>>
    /\ UNCHANGED taskVars
    /\ UNCHANGED setupVars
    /\ UNCHANGED <<notice, keysOk, installOk>>

NextUpd ==
    \/ \E k \in UpdKeys, v \in UpdValues : UpdCall(k, v)
    \/ UpdAgain

SpecUpd == InitUpd /\ [][NextUpd]_vars

(***************************************************************************)
(* get_llm_instance on its own: every process environment over SelValues   *)
(* and every file of at most MaxSelLines lines over SelLineTexts.          *)
(***************************************************************************)
SelValues == {Unset, Empty, SecretA, SecretB}
SelLineTexts == {<<k, "=">> \o v : k \in ApiKeys, v \in {Empty, SecretA}}
SelFiles == FilesOver(SelLineTexts, MaxSelLines) \cup {NoFile}

InitSel ==
    /\ envFile \in SelFiles
    /\ environ \in {e \in [EnvVars -> SelValues] : e[SLOW_MO] = Unset}
    /\ pc = "sel_ready"
    /\ selOut = NoCall
    /\ TaskIdle
    /\ UpdIdle
    /\ SetupIdle
    /\ notice = "none"
    /\ keysOk = "none"
    /\ installOk = "none"

SelCall(lib) ==
    /\ pc = "sel_ready"
    /\ environ' = ReloadedEnv(environ, envFile)
    /\ selOut' = get_llm_instance(environ, envFile, lib)
    /\ pc' = "sel_done"
    /\ UNCHANGED envFile
    /\ UNCHANGED taskVars
    /\ UNCHANGED updVars
    /\ UNCHANGED setupVars
    /\ UNCHANGED <<notice, keysOk, installOk>>

NextSel == \E lib \in LibOutcomes : SelCall(lib)

SpecSel == InitSel /\ [][NextSel]_vars

(***************************************************************************)
(* setup_api_keys()                                                        *)
(***************************************************************************)
\* env_content, the file setup_api_keys writes when there is none
TemplateFile ==
    FileOf(<<Line(<<"#", " ", "Browser-Use API Configuration">>, TRUE),
             Line(<<GEMINI, "=">>, TRUE),
             Line(<<OPENAI, "=">>, TRUE),
             Line(<<ANTHROPIC, "=">>, TRUE),
             Line(<<GROQ, "=">>, TRUE),
             Line(<<>>, TRUE),
             Line(<<"#", " ", "Browser Settings">>, TRUE),
             Line(<<"HEADLESS", "=", "false">>, TRUE),
             Line(<<SLOW_MO, "=", "1", "0", "0", "0">>, TRUE)>>)

\* f"{provider.upper()}_API_KEY"
KeyNameOf(provider) ==
    CASE provider = "gemini" -> GEMINI
      [] provider = "openai" -> OPENAI
      [] provider = "anthropic" -> ANTHROPIC
      [] provider = "groq" -> GROQ

ValidProviders == {"gemini", "openai", "anthropic", "groq"}

\* what the user types at the three prompts (after .lower() / .strip())
SetupInputs ==
    [answer : {"y", "n"}, provider : {"gemini", "groq", "bogus"}, key : {Empty, SecretA}]

\* working_keys: the keys whose os.getenv value is non-empty
WorkingKeys(env) == {k \in ApiKeys : Truthy(env[k])}

\* variant: the result does not depend on whether a key was found or saved
setup_api_keysAlwaysTrue(f, env, inp) ==
    [file |-> IF f.exists THEN f ELSE TemplateFile, result |-> TRUE]

setup_api_keys(f, env, inp) ==
    LET f1 == IF f.exists THEN f ELSE TemplateFile
    IN  IF WorkingKeys(env) = {}
        THEN IF inp.answer = "y" /\ inp.provider \in ValidProviders /\ inp.key # Empty
             THEN [file |-> update_env_file(f1, KeyNameOf(inp.provider), inp.key),
                   result |-> TRUE]
             ELSE [file |-> f1, result |-> FALSE]
        ELSE [file |-> f1, result |-> TRUE]

(***************************************************************************)
(* run_automation_task(task, headless=False)                               *)
(***************************************************************************)
DefaultSlowMo == <<"1", "0", "0", "0">>

\* int(x) succeeds on a string of digits (the alphabet has no sign or blank
\* inside a value) and raises ValueError on "" and on anything else
IsInt(v) == v # Empty /\ \A i \in 1..Len(v) : v[i] \in Digits

\* os.getenv("BROWSER_SLOW_MO", 1000): the default only when the variable is unset
SlowMoArg(env) == IF env[SLOW_MO] = Unset THEN DefaultSlowMo ELSE env[SLOW_MO]

SlowMoError == "ValueError: invalid literal for int()"

Results == {"r1", None}

\* variant: the except branch starts the task over
FailRetry(e) ==
    /\ err' = e
    /\ printed' = "Task failed"
    /\ ret' = NoResult
    /\ pc' = "task_imported"
    /\ phases' = Append(phases, "retry")

\* variant: no except branch, the exception leaves run_automation_task and main
FailUncaught(e) ==
    /\ err' = e
    /\ printed' = "Traceback"
    /\ ret' = NoResult
    /\ pc' = "crashed"
    /\ phases' = phases

\* the except branch: print the failure, return None
Fail(e) ==
    /\ err' = e
    /\ printed' = "Task failed"
    /\ ret' = None
    /\ pc' = "task_returned"
    /\ phases' = Append(phases, "task complete or failed")

\* entry of run_automation_task from the caller c with task t
Dispatch(c, t) ==
    /\ caller' = c
    /\ task' = t
    /\ headless' = FALSE
    /\ pc' = "task_called"
    /\ phases' = <<"idle">>
    /\ llm' = NoLlm
    /\ browser' = NoObj
    /\ agent' = NoObj
    /\ agentResult' = NoResult
    /\ ret' = NoResult
    /\ err' = "none"
    /\ printed' = "none"
    /\ nSelect' = 0
    /\ nBrowser' = 0
    /\ nAgent' = 0
    /\ nRun' = 0
    /\ nAwait' = 0

\* from browser_use import Agent; from browser_use.browser.browser import Browser
ImportBrowserUse(ok) ==
    /\ pc = "task_called"
    /\ IF ok
       THEN /\ pc' = "task_imported"
            /\ UNCHANGED <<err, printed, ret, phases>>
       ELSE Fail("ImportError")
    /\ UNCHANGED <<envFile, environ, task, headless, llm, browser, agent, agentResult,
                   nSelect, nBrowser, nAgent, nRun, nAwait, caller, selOut>>
    /\ UNCHANGED updVars
    /\ UNCHANGED setupVars
    /\ UNCHANGED <<notice, keysOk, installOk>>

\* llm, provider = self.get_llm_instance()
GetLlm(lib) ==
    /\ pc = "task_imported"
    /\ nSelect' = nSelect + 1
    /\ environ' = ReloadedEnv(environ, envFile)
    /\ LET out == get_llm_instance(environ, envFile, lib)
       IN  IF out.ok
           THEN /\ llm' = out.llm
                /\ pc' = "task_selected"
                /\ phases' = Append(phases, "provider selected")
                /\ UNCHANGED <<err, printed, ret>>
           ELSE /\ Fail(out.error)
                /\ UNCHANGED llm
    /\ UNCHANGED <<envFile, task, headless, browser, agent, agentResult,
                   nBrowser, nAgent, nRun, nAwait, caller, selOut>>
    /\ UNCHANGED updVars
    /\ UNCHANGED setupVars
    /\ UNCHANGED <<notice, keysOk, installOk>>

\* browser = Browser(headless=headless, slow_mo=int(os.getenv("BROWSER_SLOW_MO", 1000)))
CreateBrowser(ok) ==
    /\ pc = "task_selected"
    /\ IF ~IsInt(SlowMoArg(environ))
       THEN /\ Fail(SlowMoError)
            /\ UNCHANGED <<browser, nBrowser>>
       ELSE IF ok
       THEN /\ browser' = [made |-> TRUE, headless |-> headless, slow_mo |-> SlowMoArg(environ)]
            /\ nBrowser' = nBrowser + 1
            /\ pc' = "task_browser"
            /\ UNCHANGED <<err, printed, ret, phases>>
       ELSE /\ Fail("Browser raised")
            /\ UNCHANGED <<browser, nBrowser>>
    /\ UNCHANGED <<envFile, environ, task, headless, llm, agent, agentResult,
                   nSelect, nAgent, nRun, nAwait, caller, selOut>>
    /\ UNCHANGED updVars
    /\ UNCHANGED setupVars
    /\ UNCHANGED <<notice, keysOk, installOk>>

\* agent = Agent(task=task, llm=llm, browser=browser)
CreateAgent(ok) ==
    /\ pc = "task_browser"
    /\ IF ok
       THEN /\ agent' = [made |-> TRUE, task |-> task, llm |-> llm, browser |-> browser]
            /\ nAgent' = nAgent + 1
            /\ pc' = "task_agent"
            /\ UNCHANGED <<err, printed, ret, phases>>
       ELSE /\ Fail("Agent raised")
            /\ UNCHANGED <<agent, nAgent>>
    /\ UNCHANGED <<envFile, environ, task, headless, llm, browser, agentResult,
                   nSelect, nBrowser, nRun, nAwait, caller, selOut>>
    /\ UNCHANGED updVars
    /\ UNCHANGED setupVars
    /\ UNCHANGED <<notice, keysOk, installOk>>

\* the variant of the next definition: arun() is called and not awaited, the
\* coroutine object is printed as the result
StartRunUnawaited ==
    /\ pc = "task_agent"
    /\ nRun' = nRun + 1
    /\ printed' = "Task completed"
    /\ ret' = None
    /\ pc' = "task_returned"
    /\ phases' = Append(phases, "task complete or failed")
    /\ UNCHANGED <<envFile, environ, task, headless, llm, browser, agent, agentResult,
                   err, nSelect, nBrowser, nAgent, nAwait, caller, selOut>>
    /\ UNCHANGED updVars
    /\ UNCHANGED setupVars
    /\ UNCHANGED <<notice, keysOk, installOk>>

\* agent.arun() is called and awaited: the task is in flight
StartRun ==
    /\ pc = "task_agent"
    /\ nRun' = nRun + 1
    /\ pc' = "task_inflight"
    /\ phases' = Append(phases, "task in flight")
    /\ UNCHANGED <<envFile, environ, task, headless, llm, browser, agent, agentResult,
                   ret, err, printed, nSelect, nBrowser, nAgent, nAwait, caller, selOut>>
    /\ UNCHANGED updVars
    /\ UNCHANGED setupVars
    /\ UNCHANGED <<notice, keysOk, installOk>>

\* variant: the result is printed and not returned
ReturnNothing(r) == None

\* the plain return path: print the result, return result
ReturnResult(r) == r

\* the await completes with the agent's result r
RunCompletes(r) ==
    /\ pc = "task_inflight"
    /\ nAwait' = nAwait + 1
    /\ agentResult' = r
    /\ printed' = "Task completed"
    /\ ret' = ReturnResult(r)
    /\ pc' = "task_returned"
    /\ phases' = Append(phases, "task complete or failed")
    /\ UNCHANGED <<envFile, environ, task, headless, llm, browser, agent, err,
                   nSelect, nBrowser, nAgent, nRun, caller, selOut>>
    /\ UNCHANGED updVars
    /\ UNCHANGED setupVars
    /\ UNCHANGED <<notice, keysOk, installOk>>

\* the await raises
RunRaises ==
    /\ pc = "task_inflight"
    /\ nAwait' = nAwait + 1
    /\ Fail("arun raised")
    /\ UNCHANGED <<envFile, environ, task, headless, llm, browser, agent, agentResult,
                   nSelect, nBrowser, nAgent, nRun, caller, selOut>>
    /\ UNCHANGED updVars
    /\ UNCHANGED setupVars
    /\ UNCHANGED <<notice, keysOk, installOk>>

\* where the caller goes on after the await of run_automation_task
AfterTask(c) == IF c = "interactive" THEN "interactive" ELSE "menu"

\* run_automation_task returns: its locals are gone, the caller drops the value
TaskReturns ==
    /\ pc = "task_returned"
    /\ pc' = AfterTask(caller)
    /\ caller' = "none"
    /\ task' = "none"
    /\ llm' = NoLlm
    /\ browser' = NoObj
    /\ agent' = NoObj
    /\ agentResult' = NoResult
    /\ ret' = NoResult
    /\ err' = "none"
    /\ printed' = "none"
    /\ nSelect' = 0
    /\ nBrowser' = 0
    /\ nAgent' = 0
    /\ nRun' = 0
    /\ nAwait' = 0
    /\ phases' = <<>>
    /\ UNCHANGED <<envFile, environ, headless, selOut>>
    /\ UNCHANGED updVars
    /\ UNCHANGED setupVars
    /\ UNCHANGED <<notice, keysOk, installOk>>

(***************************************************************************)
(* The launcher: __init__, main, the menu and its handlers, and the user   *)
(* who edits .env while the launcher waits at a prompt.                    *)
(***************************************************************************)
\* the .env files the user keeps, and the variables exported by the shell
UserLineTexts ==
    {<<GEMINI, "=">>, <<GEMINI, "=", "a">>, <<GROQ, "=", "a">>, <<SLOW_MO, "=">>}
UserFiles == FilesOver(UserLineTexts, MaxUserLines) \cup {NoFile}
ProcEnvs ==
    {e \in [EnvVars -> {Unset, SecretA}] :
        e[SLOW_MO] = Unset /\ Cardinality({k \in ApiKeys : e[k] # Unset}) <= 1}

\* BrowserAutomationLauncher(): load_dotenv() without override
Init ==
    /\ envFile \in UserFiles
    /\ environ \in {LoadDotenv(e, envFile, FALSE) : e \in ProcEnvs}
    /\ pc = "main"
    /\ selOut = NoCall
    /\ TaskIdle
    /\ UpdIdle
    /\ SetupIdle
    /\ notice = "none"
    /\ keysOk = "none"
    /\ installOk = "none"

\* check_installation(): True, False (install_browser_use caught the failed pip),
\* or the uncaught CalledProcessError of the Playwright install
CheckInstallation(outcome) ==
    /\ pc = "main"
    /\ pc' = CASE outcome = "ok" -> "main_setup"
               [] outcome = "failed" -> "exited"
               [] outcome = "raised" -> "crashed"
    /\ notice' = IF outcome = "failed" THEN "Installation failed" ELSE notice
    /\ installOk' = CASE outcome = "ok" -> TRUE
                      [] outcome = "failed" -> FALSE
                      [] outcome = "raised" -> installOk
    /\ UNCHANGED <<envFile, environ, selOut, keysOk>>
    /\ UNCHANGED taskVars
    /\ UNCHANGED updVars
    /\ UNCHANGED setupVars

\* if not self.setup_api_keys(): ... return
MainSetup(inp) ==
    /\ pc = "main_setup"
    /\ LET r == setup_api_keys(envFile, environ, inp)
       IN  /\ envFile' = r.file
           /\ keysOk' = r.result
           /\ pc' = IF r.result THEN "menu" ELSE "exited"
           /\ notice' = IF r.result THEN notice ELSE "API key setup required"
    /\ UNCHANGED <<environ, selOut, installOk>>
    /\ UNCHANGED taskVars
    /\ UNCHANGED updVars
    /\ UNCHANGED setupVars

\* variant: the else branch of the main loop leaves the loop
HandlerLeavesOnInvalid(choice) ==
    CASE choice = "1" -> "predefined"
      [] choice = "2" -> "interactive"
      [] choice = "3" -> "menu_setup"
      [] choice = "4" -> "run_tests"
      [] choice = "5" -> "show_docs"
      [] OTHER -> "exited"

\* the branch of the main loop taken for a menu choice
Handler(choice) ==
    CASE choice = "1" -> "predefined"
      [] choice = "2" -> "interactive"
      [] choice = "3" -> "menu_setup"
      [] choice = "4" -> "run_tests"
      [] choice = "5" -> "show_docs"
      [] choice = "6" -> "exited"
      [] OTHER -> "invalid_choice"

MenuChoices == {"1", "2", "3", "4", "5", "6", "x"}

\* choice = self.show_menu()
ShowMenu(choice) ==
    /\ pc = "menu"
    /\ pc' = Handler(choice)
    /\ notice' = IF choice = "6" THEN "Goodbye" ELSE notice
    /\ UNCHANGED <<envFile, environ, selOut, keysOk, installOk>>
    /\ UNCHANGED taskVars
    /\ UNCHANGED updVars
    /\ UNCHANGED setupVars

\* choice 3: self.setup_api_keys(), its result dropped
MenuSetup(inp) ==
    /\ pc = "menu_setup"
    /\ envFile' = setup_api_keys(envFile, environ, inp).file
    /\ pc' = "menu"
    /\ UNCHANGED <<environ, selOut, notice, keysOk, installOk>>
    /\ UNCHANGED taskVars
    /\ UNCHANGED updVars
    /\ UNCHANGED setupVars

\* choices 4, 5 and anything else: print, then the menu again
BackToMenu ==
    /\ pc \in {"run_tests", "show_docs", "invalid_choice"}
    /\ pc' = "menu"
    /\ UNCHANGED <<envFile, environ, selOut>>
    /\ UNCHANGED taskVars
    /\ UNCHANGED updVars
    /\ UNCHANGED setupVars
    /\ UNCHANGED <<notice, keysOk, installOk>>

\* the tasks dictionary of run_predefined_tasks (its first entry)
PredefinedTasks == [c \in {"1"} |-> "predefined task 1"]

\* run_predefined_tasks(): a listed task, 'c' and a custom task, or neither
RunPredefinedTasks(choice, custom) ==
    /\ pc = "predefined"
    /\ IF choice \in DOMAIN PredefinedTasks
       THEN Dispatch("predefined", PredefinedTasks[choice])
       ELSE IF choice = "c" /\ custom # ""
       THEN Dispatch("predefined", custom)
       ELSE /\ pc' = "menu"
            /\ UNCHANGED taskVars
    /\ UNCHANGED <<envFile, environ, selOut>>
    /\ UNCHANGED updVars
    /\ UNCHANGED setupVars
    /\ UNCHANGED <<notice, keysOk, installOk>>

\* interactive_mode(): quit, an empty line, or a task
InteractiveMode(text) ==
    /\ pc = "interactive"
    /\ IF text \in {"quit", "exit", "q"}
       THEN /\ pc' = "menu"
            /\ UNCHANGED taskVars
       ELSE IF text # ""
       THEN Dispatch("interactive", text)
       ELSE /\ pc' = "interactive"
            /\ UNCHANGED taskVars
    /\ UNCHANGED <<envFile, environ, selOut>>
    /\ UNCHANGED updVars
    /\ UNCHANGED setupVars
    /\ UNCHANGED <<notice, keysOk, installOk>>

\* the user rewrites (or removes) .env while the launcher waits at the menu
\* (nothing reads the file between two prompts except the actions below, so
\* an edit made at any other moment has the effect of one made here)
UserEdits(f) ==
    /\ pc = "menu"
    /\ f # envFile
    /\ envFile' = f
    /\ UNCHANGED <<environ, pc, selOut>>
    /\ UNCHANGED taskVars
    /\ UNCHANGED updVars
    /\ UNCHANGED setupVars
    /\ UNCHANGED <<notice, keysOk, installOk>>

Next ==
    \/ \E outcome \in {"ok", "failed", "raised"} : CheckInstallation(outcome)
    \/ \E inp \in SetupInputs : MainSetup(inp)
    \/ \E choice \in MenuChoices : ShowMenu(choice)
    \/ \E inp \in SetupInputs : MenuSetup(inp)
    \/ BackToMenu
    \/ \E choice \in {"1", "c", "x"}, custom \in {"", "go"} : RunPredefinedTasks(choice, custom)
    \/ \E text \in {"quit", "", "go"} : InteractiveMode(text)
    \/ \E ok \in BOOLEAN : ImportBrowserUse(ok)
    \/ \E lib \in LibOutcomes : GetLlm(lib)
    \/ \E ok \in BOOLEAN : CreateBrowser(ok)
    \/ \E ok \in BOOLEAN : CreateAgent(ok)
    \/ StartRun
    \/ \E r \in Results : RunCompletes(r)
    \/ RunRaises
    \/ TaskReturns
    \/ \E f \in UserFiles : UserEdits(f)

Spec == Init /\ [][Next]_vars

\* the launcher started from a shell that exports none of the variables
InitFresh ==
    /\ envFile \in UserFiles
    /\ environ = LoadDotenv([k \in EnvVars |-> Unset], envFile, FALSE)
    /\ pc = "main"
    /\ selOut = NoCall
    /\ TaskIdle
    /\ UpdIdle
    /\ SetupIdle
    /\ notice = "none"
    /\ keysOk = "none"
    /\ installOk = "none"

SpecFresh == InitFresh /\ [][Next]_vars

(***************************************************************************)
(* setup_api_keys followed at once by get_llm_instance: every process      *)
(* environment of KeyEnvs (before load_dotenv) and every file of KeyFiles. *)
(***************************************************************************)
KeyEnvs == {e \in [EnvVars -> {Unset, Empty, SecretA}] : e[SLOW_MO] = Unset}
KeyFiles == FilesOver(UserLineTexts, MaxUserLines) \cup {NoFile}

\* BrowserAutomationLauncher(): load_dotenv() without override
InitKeys ==
    /\ envFile \in KeyFiles
    /\ environ \in {LoadDotenv(e, envFile, FALSE) : e \in KeyEnvs}
    /\ pc = "keys_ready"
    /\ selOut = NoCall
    /\ TaskIdle
    /\ UpdIdle
    /\ SetupIdle
    /\ notice = "none"
    /\ keysOk = "none"
    /\ installOk = "none"

\* self.setup_api_keys()
KeysSetup(inp) ==
    /\ pc = "keys_ready"
    /\ envFile' = setup_api_keys(envFile, environ, inp).file
    /\ keysOk' = setup_api_keys(envFile, environ, inp).result
    /\ pc' = "keys_setup"
    /\ UNCHANGED <<environ, selOut, notice, installOk>>
    /\ UNCHANGED taskVars
    /\ UNCHANGED updVars
    /\ UNCHANGED setupVars

\* self.get_llm_instance(), the next thing that reads the credentials
KeysSelect(lib) ==
    /\ pc = "keys_setup"
    /\ environ' = ReloadedEnv(environ, envFile)
    /\ selOut' = get_llm_instance(environ, envFile, lib)
    /\ pc' = "keys_selected"
    /\ UNCHANGED <<envFile, notice, keysOk, installOk>>
    /\ UNCHANGED taskVars
    /\ UNCHANGED updVars
    /\ UNCHANGED setupVars

NextKeys ==
    \/ \E inp \in SetupInputs : KeysSetup(inp)
    \/ \E lib \in LibOutcomes : KeysSelect(lib)

SpecKeys == InitKeys /\ [][NextKeys]_vars

(***************************************************************************)
(* The setup scripts: src/browser_use_setup.py (run_full_setup, on a PC)   *)
(* and src/termux_browser_use_setup.py (run_complete_setup, in Termux).    *)
(* An external command (subprocess.run with check=True) ends in one of     *)
(* three ways: "ok", "nonzero" (CalledProcessError) or "notfound"          *)
(* (FileNotFoundError, the command is not on the PATH).  sys.executable    *)
(* and, inside Termux, pkg are always found.                               *)
(***************************************************************************)
Placeholder == <<"your_gemini_api_key_here">>

\* env_content of BrowserUseSetup.setup_env_file
PcEnvTemplate ==
    FileOf(<<Line(<<"#", " ", "Browser-Use Environment Configuration">>, TRUE),
             Line(<<"#", " ", "Get your FREE Gemini API key from: ...">>, TRUE),
             Line(<<>>, TRUE),
             Line(<<"#", " ", "REQUIRED: Choose ONE of the following LLM providers">>, TRUE),
             Line(<<GEMINI, "=">> \o Placeholder, TRUE),
             Line(<<>>, TRUE),
             Line(<<"#", " ", "OPTIONAL: Alternative LLM providers ...">>, TRUE),
             Line(<<"#", " ", OPENAI, "=", "your_openai_api_key_here">>, TRUE),
             Line(<<"#", " ", ANTHROPIC, "=", "your_anthropic_api_key_here">>, TRUE),
             Line(<<"#", " ", GROQ, "=", "your_groq_api_key_here">>, TRUE),
             Line(<<>>, TRUE),
             Line(<<"#", " ", "OPTIONAL: Browser settings">>, TRUE),
             Line(<<"#", " ", "HEADLESS", "=", "false", " ", " ", "#", " ", "Set to true ...">>, TRUE),
             Line(<<"#", " ", SLOW_MO, "=", "1", "0", "0", "0", " ", " ", "#", " ", "Milliseconds ...">>, TRUE),
             Line(<<>>, TRUE),
             Line(<<"#", " ", "OPTIONAL: Logging">>, TRUE),
             Line(<<"#", " ", "LOG_LEVEL", "=", "INFO">>, TRUE)>>)

\* env_content of TermuxBrowserUseSetup.create_env_file
TermuxEnvTemplate ==
    FileOf(<<Line(<<"#", " ", "Browser-Use Configuration for Termux">>, TRUE),
             Line(<<"#", " ", "Get FREE Gemini API key: ...">>, TRUE),
             Line(<<>>, TRUE),
             Line(<<"#", " ", "REQUIRED: Add your API key here">>, TRUE),
             Line(<<GEMINI, "=">> \o Placeholder, TRUE),
             Line(<<>>, TRUE),
             Line(<<"#", " ", "Termux-specific settings">>, TRUE),
             Line(<<"HEADLESS", "=", "true">>, TRUE),
             Line(<<"BROWSER_EXECUTABLE", "=", "/data/data/com.termux/files/usr/bin/chromium">>, TRUE),
             Line(<<"DISPLAY", "=", ":1">>, TRUE),
             Line(<<>>, TRUE),
             Line(<<"#", " ", "Optional: Other LLM providers">>, TRUE),
             Line(<<"#", " ", OPENAI, "=", "your_openai_key_here">>, TRUE),
             Line(<<"#", " ", GROQ, "=", "your_groq_key_here">>, TRUE),
             Line(<<>>, TRUE),
             Line(<<"#", " ", "Performance settings for mobile">>, TRUE),
             Line(<<"BROWSER_TIMEOUT", "=", "6", "0", "0", "0", "0">>, TRUE),
             Line(<<SLOW_MO, "=", "2", "0", "0", "0">>, TRUE)>>)

\* the steps lists of run_full_setup and run_complete_setup
PcSteps ==
    <<"Python Version Check", "UV Package Manager", "Browser-Use Installation",
      "Chromium Installation", "Environment Setup", "Demo Script Creation",
      "Advanced Script Creation">>
TermuxSteps ==
    <<"Package Update", "Dependencies Installation", "Python Packages",
      "Playwright Setup", "Display Setup", "Environment Configuration",
      "Demo Script Creation", "Instructions Creation">>
Steps(s) == IF s = "pc" THEN PcSteps ELSE TermuxSteps

\* the for loop is about to call the step named name of the script s
AtStep(s, name) ==
    /\ script = s
    /\ pc = "setup_steps"
    /\ stepNo < Len(Steps(s))
    /\ Steps(s)[stepNo + 1] = name

\* the step returned ok (True or False) to the loop: if not step_func():
\* failed_steps.append(step_name).  instFailed says that the installation the
\* step is there for did not succeed, ranCmd that it ran an external command,
\* files what it wrote.
StepReturns(name, ok, instFailed, ranCmd, files) ==
    /\ stepNo' = stepNo + 1
    /\ failedSteps' = IF ok THEN failedSteps ELSE Append(failedSteps, name)
    /\ cmdFailed' = IF instFailed THEN cmdFailed \cup {name} ELSE cmdFailed
    /\ invoked' = IF ranCmd THEN invoked \cup {name} ELSE invoked
    /\ written' = written \cup files
    /\ UNCHANGED <<pc, report>>

\* the step let an exception escape: it passes through the loop and the
\* script's entry point, the process ends with a traceback
StepRaises(name) ==
    /\ stepNo' = stepNo + 1
    /\ cmdFailed' = cmdFailed \cup {name}
    /\ invoked' = invoked \cup {name}
    /\ pc' = "setup_crashed"
    /\ UNCHANGED <<failedSteps, written, report>>

\* what no step of either script touches
SetupFrame ==
    /\ UNCHANGED <<environ, selOut, notice, keysOk, installOk, script, envOk>>
    /\ UNCHANGED taskVars
    /\ UNCHANGED updVars

\* the ways a command that is found can end, and the ways uv and uvx can end
Exits == {"ok", "nonzero"}
UvExits == IF uvOnPath THEN Exits ELSE {"notfound"}

\* the end-of-setup report: the success message if not failed_steps, else
\* the list of failed steps
ReportOf(failed) == IF failed = <<>> THEN "complete" ELSE "issues"

(***************************************************************************)
(* BrowserUseSetup (PC)                                                    *)
(***************************************************************************)
\* run_full_setup() up to the loop: failed_steps = []
RunFullSetup ==
    /\ script = "pc"
    /\ pc = "setup_start"
    /\ pc' = "setup_steps"
    /\ failedSteps' = <<>>
    /\ UNCHANGED <<envFile, stepNo, cmdFailed, invoked, written, report, uvOnPath>>
    /\ SetupFrame

\* check_python_version(): newEnough is python_version >= (3, 11)
CheckPythonVersion(newEnough) ==
    /\ AtStep("pc", "Python Version Check")
    /\ StepReturns("Python Version Check", newEnough, FALSE, FALSE, {})
    /\ UNCHANGED <<envFile, uvOnPath>>
    /\ SetupFrame

\* the installer command of install_uv: pip on Windows; elsewhere
\* subprocess.run(["curl", "-LsSf", url], check=True, shell=True), which runs
\* sh -c curl with the other items as arguments of the shell: curl without a
\* URL exits with a non-zero status
UvInstaller(system, pip) == IF system = "windows" THEN pip ELSE "nonzero"

\* install_uv(): version is how uv --version ends, onPath whether a uv that
\* was just installed is found afterwards
InstallUv(version, system, pip, onPath) ==
    /\ AtStep("pc", "UV Package Manager")
    /\ IF version = "ok"
       THEN /\ StepReturns("UV Package Manager", TRUE, FALSE, TRUE, {})
            /\ UNCHANGED uvOnPath
       ELSE /\ StepReturns("UV Package Manager", UvInstaller(system, pip) = "ok",
                           UvInstaller(system, pip) # "ok", TRUE, {})
            /\ uvOnPath' = IF UvInstaller(system, pip) = "ok" /\ ~uvOnPath
                           THEN onPath ELSE uvOnPath
    /\ UNCHANGED envFile
    /\ SetupFrame

\* try: primary command; except CalledProcessError: try: fallback command;
\* except CalledProcessError: return False.  FileNotFoundError is not caught.
WithFallback(name, primary, fallback) ==
    CASE primary = "ok" -> StepReturns(name, TRUE, FALSE, TRUE, {})
      [] primary = "nonzero" ->
            StepReturns(name, fallback = "ok", fallback # "ok", TRUE, {})
      [] primary = "notfound" -> StepRaises(name)

\* install_browser_use(): uv pip install browser-use, fallback pip
InstallBrowserUse(uv, pip) ==
    /\ AtStep("pc", "Browser-Use Installation")
    /\ WithFallback("Browser-Use Installation", uv, pip)
    /\ UNCHANGED <<envFile, uvOnPath>>
    /\ SetupFrame

\* install_chromium(): uvx playwright install, fallback python -m playwright
InstallChromium(uvx, playwright) ==
    /\ AtStep("pc", "Chromium Installation")
    /\ WithFallback("Chromium Installation", uvx, playwright)
    /\ UNCHANGED <<envFile, uvOnPath>>
    /\ SetupFrame

\* setup_env_file(): an existing .env is left alone
SetupEnvFile ==
    /\ AtStep("pc", "Environment Setup")
    /\ IF envFile.exists
       THEN /\ StepReturns("Environment Setup", TRUE, FALSE, FALSE, {})
            /\ UNCHANGED envFile
       ELSE /\ StepReturns("Environment Setup", TRUE, FALSE, FALSE, {".env"})
            /\ envFile' = PcEnvTemplate
    /\ UNCHANGED uvOnPath
    /\ SetupFrame

\* create_demo_script()
CreateDemoScript ==
    /\ AtStep("pc", "Demo Script Creation")
    /\ StepReturns("Demo Script Creation", TRUE, FALSE, FALSE, {"demo_browser_use.py"})
    /\ UNCHANGED <<envFile, uvOnPath>>
    /\ SetupFrame

\* create_advanced_script()
CreateAdvancedScript ==
    /\ AtStep("pc", "Advanced Script Creation")
    /\ StepReturns("Advanced Script Creation", TRUE, FALSE, FALSE,
                   {"advanced_browser_use.py"})
    /\ UNCHANGED <<envFile, uvOnPath>>
    /\ SetupFrame

\* run_full_setup() after the loop
FullSetupReport ==
    /\ script = "pc"
    /\ pc = "setup_steps"
    /\ stepNo = Len(PcSteps)
    /\ report' = ReportOf(failedSteps)
    /\ pc' = "setup_done"
    /\ UNCHANGED <<envFile, stepNo, failedSteps, cmdFailed, invoked, written, uvOnPath>>
    /\ SetupFrame

(***************************************************************************)
(* TermuxBrowserUseSetup                                                   *)
(***************************************************************************)
\* variant: the result of the environment check is not looked at
AfterEnvCheckIgnored(isTermux) == "setup_steps"

\* if not self.check_termux_environment(): return
AfterEnvCheck(isTermux) == IF isTermux THEN "setup_steps" ELSE "setup_halted"

\* run_complete_setup() up to the loop; isTermux is
\* os.path.exists("/data/data/com.termux")
RunCompleteSetup(isTermux) ==
    /\ script = "termux"
    /\ pc = "setup_start"
    /\ envOk' = IF isTermux THEN "yes" ELSE "no"
    /\ pc' = AfterEnvCheck(isTermux)
    /\ failedSteps' = <<>>
    /\ UNCHANGED <<envFile, stepNo, cmdFailed, invoked, written, report, uvOnPath>>
    /\ UNCHANGED <<environ, selOut, notice, keysOk, installOk, script>>
    /\ UNCHANGED taskVars
    /\ UNCHANGED updVars

\* update_packages(): pkg update, pkg upgrade
UpdatePackages(pkg) ==
    /\ AtStep("termux", "Package Update")
    /\ StepReturns("Package Update", pkg = "ok", pkg # "ok", TRUE, {})
    /\ UNCHANGED <<envFile, uvOnPath>>
    /\ SetupFrame

\* install_dependencies(): pkg install for each package, a failure is
\* printed and the loop continues; pkg is "nonzero" when one of them failed
InstallDependencies(pkg) ==
    /\ AtStep("termux", "Dependencies Installation")
    /\ StepReturns("Dependencies Installation", TRUE, pkg # "ok", TRUE, {})
    /\ UNCHANGED <<envFile, uvOnPath>>
    /\ SetupFrame

\* install_python_packages(): pip install for each package
InstallPythonPackages(pip) ==
    /\ AtStep("termux", "Python Packages")
    /\ StepReturns("Python Packages", pip = "ok", pip # "ok", TRUE, {})
    /\ UNCHANGED <<envFile, uvOnPath>>
    /\ SetupFrame

\* setup_playwright(): python -m playwright install chromium; the except
\* branch returns True
SetupPlaywright(playwright) ==
    /\ AtStep("termux", "Playwright Setup")
    /\ StepReturns("Playwright Setup", TRUE, playwright # "ok", TRUE, {})
    /\ UNCHANGED <<envFile, uvOnPath>>
    /\ SetupFrame

\* setup_display(): pkg install tigervnc, then start_vnc.sh is written; the
\* except branch returns True
SetupDisplay(pkg) ==
    /\ AtStep("termux", "Display Setup")
    /\ StepReturns("Display Setup", TRUE, pkg # "ok", TRUE,
                   IF pkg = "ok" THEN {"start_vnc.sh"} ELSE {})
    /\ UNCHANGED <<envFile, uvOnPath>>
    /\ SetupFrame

\* create_env_file(): open(self.env_file, 'w')
CreateEnvFile ==
    /\ AtStep("termux", "Environment Configuration")
    /\ StepReturns("Environment Configuration", TRUE, FALSE, FALSE, {".env"})
    /\ envFile' = TermuxEnvTemplate
    /\ UNCHANGED uvOnPath
    /\ SetupFrame

\* create_termux_demo()
CreateTermuxDemo ==
    /\ AtStep("termux", "Demo Script Creation")
    /\ StepReturns("Demo Script Creation", TRUE, FALSE, FALSE, {"termux_browser_demo.py"})
    /\ UNCHANGED <<envFile, uvOnPath>>
    /\ SetupFrame

\* create_setup_instructions()
CreateSetupInstructions ==
    /\ AtStep("termux", "Instructions Creation")
    /\ StepReturns("Instructions Creation", TRUE, FALSE, FALSE, {"TERMUX_SETUP.md"})
    /\ UNCHANGED <<envFile, uvOnPath>>
    /\ SetupFrame

\* run_complete_setup() after the loop
CompleteSetupReport ==
    /\ script = "termux"
    /\ pc = "setup_steps"
    /\ stepNo = Len(TermuxSteps)
    /\ report' = ReportOf(failedSteps)
    /\ pc' = "setup_done"
    /\ UNCHANGED <<envFile, stepNo, failedSteps, cmdFailed, invoked, written, uvOnPath>>
    /\ SetupFrame

(***************************************************************************)
(* Either script, started in a directory whose .env is one of UserFiles.   *)
(***************************************************************************)
InitSetup ==
    /\ script \in {"pc", "termux"}
    /\ envFile \in UserFiles
    /\ uvOnPath \in (IF script = "pc" THEN BOOLEAN ELSE {TRUE})
    /\ environ = [k \in EnvVars |-> Unset]
    /\ pc = "setup_start"
    /\ selOut = NoCall
    /\ envOk = "unchecked"
    /\ stepNo = 0
    /\ failedSteps = <<>>
    /\ cmdFailed = {}
    /\ invoked = {}
    /\ written = {}
    /\ report = "none"
    /\ notice = "none"
    /\ keysOk = "none"
    /\ installOk = "none"
    /\ TaskIdle
    /\ UpdIdle

NextSetup ==
    \/ RunFullSetup
    \/ \E newEnough \in BOOLEAN : CheckPythonVersion(newEnough)
    \/ \E version \in UvExits, system \in {"windows", "linux"}, pip \in Exits,
          onPath \in BOOLEAN : InstallUv(version, system, pip, onPath)
    \/ \E uv \in UvExits, pip \in Exits : InstallBrowserUse(uv, pip)
    \/ \E uvx \in UvExits, playwright \in Exits : InstallChromium(uvx, playwright)
    \/ SetupEnvFile
    \/ CreateDemoScript
    \/ CreateAdvancedScript
    \/ FullSetupReport
    \/ \E isTermux \in BOOLEAN : RunCompleteSetup(isTermux)
    \/ \E pkg \in Exits : UpdatePackages(pkg)
    \/ \E pkg \in Exits : InstallDependencies(pkg)
    \/ \E pip \in Exits : InstallPythonPackages(pip)
    \/ \E playwright \in Exits : SetupPlaywright(playwright)
    \/ \E pkg \in Exits : SetupDisplay(pkg)
    \/ CreateEnvFile
    \/ CreateTermuxDemo
    \/ CreateSetupInstructions
    \/ CompleteSetupReport

SpecSetup == InitSetup /\ [][NextSetup]_vars

(***************************************************************************)
(* A setup script, then the launcher started in the directory whose .env   *)
(* the script left, with no edit in between.                               *)
(***************************************************************************)
\* BrowserAutomationLauncher(): load_dotenv() without override
LaunchAfterSetup ==
    /\ pc = "setup_done"
    /\ environ' = LoadDotenv(environ, envFile, FALSE)
    /\ pc' = "keys_ready"
    /\ UNCHANGED <<envFile, selOut, notice, keysOk, installOk>>
    /\ UNCHANGED taskVars
    /\ UNCHANGED updVars
    /\ UNCHANGED setupVars

NextInstalled ==
    \/ NextSetup
    \/ LaunchAfterSetup
    \/ NextKeys

SpecInstalled == InitSetup /\ [][NextInstalled]_vars

(***************************************************************************)
(* Properties.                                                             *)
(***************************************************************************)
\* the keys with a non-empty value in a credential set
NonEmptyKeys(env) == {k \in ApiKeys : env[k] # Unset /\ env[k] # <<>>}

\* the provider each key belongs to
ProviderOfKey(k) ==
    CASE k = GEMINI -> "Gemini (FREE)"
      [] k = GROQ -> "Groq (FREE)"
      [] k = OPENAI -> "OpenAI GPT-4"
      [] k = ANTHROPIC -> "Claude 3"

\* Gemini > Groq > OpenAI > Anthropic
Priority == <<GEMINI, GROQ, OPENAI, ANTHROPIC>>
Highest(S) == Priority[Min({i \in 1..Len(Priority) : Priority[i] \in S})]

\* get_llm_instance answered with the provider of key k, or could not load
\* that provider's client library; it neither reported missing credentials
\* nor answered with another provider
AnsweredFor(out, env, k) ==
    /\ out.ok => out.llm.provider = ProviderOfKey(k) /\ out.llm.api_key = env[k]
    /\ ~out.ok => out.error = InstallError

\* C1: with exactly one non-empty key after the reload, get_llm_instance
\* returns the provider of that key and no other (its only other outcome is
\* the failed installation of that provider's client library).
C1_SingleKeySelected ==
    pc = "sel_done" =>
        \A k \in ApiKeys :
            NonEmptyKeys(environ) = {k} => AnsweredFor(selOut, environ, k)

C1_Witness ==
    /\ pc = "sel_done"
    /\ NonEmptyKeys(environ) = {ANTHROPIC}
    /\ environ[GEMINI] = Empty
    /\ selOut.ok
    /\ selOut.llm.provider = "Claude 3"

\* C2: with two or more non-empty keys, get_llm_instance returns the
\* highest-priority configured provider in the order Gemini > Groq > OpenAI >
\* Anthropic, whatever the lower-priority keys hold.
C2_HighestPrioritySelected ==
    pc = "sel_done" /\ Cardinality(NonEmptyKeys(environ)) >= 2 =>
        AnsweredFor(selOut, environ, Highest(NonEmptyKeys(environ)))

C2_Witness ==
    /\ pc = "sel_done"
    /\ NonEmptyKeys(environ) = {GROQ, OPENAI, ANTHROPIC}
    /\ selOut.ok
    /\ selOut.llm.provider = "Groq (FREE)"

\* the current invocation of run_automation_task has called get_llm_instance
Selected == nSelect >= 1

\* C3: when no provider key is non-empty at the selection, get_llm_instance
\* fails with the missing-credential error and the invocation constructs no
\* Browser and no Agent and never calls the agent's run operation.
C3_NoKeyNoConstruction ==
    Selected /\ NonEmptyKeys(environ) = {} =>
        /\ err = NoKeyError
        /\ pc = "task_returned"
        /\ ret = None
        /\ llm = NoLlm
        /\ nBrowser = 0 /\ browser = NoObj
        /\ nAgent = 0 /\ agent = NoObj
        /\ nRun = 0 /\ nAwait = 0

C3_Witness ==
    /\ pc = "task_returned"
    /\ Selected
    /\ NonEmptyKeys(environ) = {}
    /\ err = NoKeyError

\* a line for key k: it starts with "k="
IsKeyLine(l, k) == Len(l.text) >= 2 /\ l.text[1] = k /\ l.text[2] = "="
HasKeyLine(f, k) == \E i \in 1..Len(f.lines) : IsKeyLine(f.lines[i], k)

\* C4: update_env_file(key, value) on a file that holds a line for the key
\* replaces that line (the first such line) at its position with key=value;
\* every other line, the order and the line count are unchanged.
C4_ReplacedInPlace ==
    pc = "upd_done" /\ preFile.exists /\ HasKeyLine(preFile, updKey) =>
        /\ envFile.exists
        /\ Len(envFile.lines) = Len(preFile.lines)
        /\ \E i \in 1..Len(preFile.lines) :
              /\ IsKeyLine(preFile.lines[i], updKey)
              /\ \A j \in 1..(i - 1) : ~IsKeyLine(preFile.lines[j], updKey)
              /\ envFile.lines[i].text = <<updKey, "=">> \o updVal
              /\ envFile.lines[i].nl
              /\ \A j \in 1..Len(preFile.lines) :
                    j # i => envFile.lines[j] = preFile.lines[j]

C4_Witness ==
    /\ pc = "upd_done"
    /\ Len(preFile.lines) = 3
    /\ ~IsKeyLine(preFile.lines[1], updKey)
    /\ IsKeyLine(preFile.lines[2], updKey)
    /\ IsKeyLine(preFile.lines[3], updKey)
    /\ envFile.lines[2].text = <<updKey, "=">> \o updVal
    /\ envFile.lines[2] # preFile.lines[2]

\* C5 as stated: update_env_file(key, value) on a file without a line for
\* the key appends exactly one line key=value: the line count grows by one
\* and the lines that were there are unchanged.
C5_AppendsOneLine ==
    pc = "upd_done" /\ preFile.exists /\ ~HasKeyLine(preFile, updKey) =>
        /\ Len(envFile.lines) = Len(preFile.lines) + 1
        /\ envFile.lines[Len(envFile.lines)].text = <<updKey, "=">> \o updVal
        /\ \A j \in 1..Len(preFile.lines) : envFile.lines[j] = preFile.lines[j]

\* the failures raised by the external collaborators before the agent runs:
\* the browser_use import, the pip installation of a client library, and the
\* constructors of Browser and Agent
CollaboratorErrors == {"ImportError", InstallError, "Browser raised", "Agent raised"}

\* an invocation that selected with a configured provider and has returned
\* without one of its collaborators failing before the run
ConfiguredInvocationDone ==
    /\ pc = "task_returned"
    /\ Selected
    /\ NonEmptyKeys(environ) # {}
    /\ task # ""
    /\ err \notin CollaboratorErrors

\* C6 as stated: every invocation of run_automation_task with a configured
\* provider constructs exactly one Agent, bound to the selected handle and
\* the task, and calls its run operation exactly once.
C6_OneAgentOneRun ==
    ConfiguredInvocationDone =>
        /\ nAgent = 1
        /\ agent.made
        /\ agent.llm = llm /\ llm # NoLlm
        /\ agent.task = task
        /\ nRun = 1

\* C7: when the run operation or an earlier step raises, run_automation_task
\* reports the failure and returns None, and there is no second provider
\* selection, agent construction or run call in the invocation.
C7_NoRetry ==
    /\ nSelect <= 1 /\ nBrowser <= 1 /\ nAgent <= 1 /\ nRun <= 1 /\ nAwait <= 1
    /\ err # "none" =>
          /\ pc = "task_returned"
          /\ ret = None
          /\ printed = "Task failed"

C7_Witness ==
    /\ pc = "task_returned"
    /\ err = "arun raised"
    /\ nSelect = 1 /\ nAgent = 1 /\ nRun = 1
    /\ ret = None

\* C8: when the run completes without error, run_automation_task returns
\* exactly the value the agent returned, for every result value.
C8_ResultUnmodified ==
    pc = "task_returned" /\ err = "none" =>
        /\ agentResult \in Results
        /\ ret = agentResult
        /\ printed = "Task completed"

C8_Witness ==
    /\ pc = "task_returned"
    /\ err = "none"
    /\ agentResult = "r1"
    /\ ret = "r1"

\* C9 as stated: an invocation with a valid provider and a non-empty task
\* goes idle -> provider selected -> task in flight -> task complete or failed
\* and reaches the final state on exactly one await.
C9_PhasesInOrder ==
    ConfiguredInvocationDone =>
        /\ phases = <<"idle", "provider selected", "task in flight",
                      "task complete or failed">>
        /\ nAwait = 1

\* the credential set the file states, and the provider it determines
FileCredentials(f) == LoadDotenv([k \in EnvVars |-> Unset], f, TRUE)
FileProvider(f) ==
    IF NonEmptyKeys(FileCredentials(f)) = {} THEN "none"
    ELSE ProviderOfKey(Highest(NonEmptyKeys(FileCredentials(f))))

\* C10 as stated: the provider a dispatch chooses is the one the content of
\* the credentials file (when there is one) determines at that moment,
\* whatever was loaded at process start or by an earlier dispatch.
C10_FreshCredentials ==
    Selected /\ envFile.exists =>
        IF FileProvider(envFile) = "none"
        THEN llm = NoLlm /\ err = NoKeyError
        ELSE /\ err # NoKeyError
             /\ llm # NoLlm => llm.provider = FileProvider(envFile)

\* the positions at which the launcher waits for the user at a prompt, and
\* the positions inside an invocation of run_automation_task
Prompts == {"menu", "predefined", "interactive", "menu_setup"}
TaskPcs == {"task_called", "task_imported", "task_selected", "task_browser",
            "task_agent", "task_inflight", "task_returned"}

\* runs of agent.arun() started and not yet finished
InFlight == nRun - nAwait

C11_State ==
    /\ nRun <= 1
    /\ InFlight = (IF pc = "task_inflight" THEN 1 ELSE 0)
    /\ pc \in Prompts => nRun = 0 /\ caller = "none"
    /\ pc \in TaskPcs => caller \in {"predefined", "interactive"}
    /\ pc = "task_returned" => printed \in {"Task completed", "Task failed"}

C11_Step ==
    /\ (pc \in TaskPcs /\ pc' \notin TaskPcs) =>
          /\ pc = "task_returned"
          /\ InFlight = 0
          /\ printed \in {"Task completed", "Task failed"}
          /\ pc' \in {"menu", "interactive"}
    /\ (pc \notin TaskPcs /\ pc' \in TaskPcs) =>
          /\ pc \in {"predefined", "interactive"}
          /\ pc' = "task_called"

\* C11: at most one task is in flight at any time: a run is in flight only
\* inside the one active invocation, no invocation is active at a prompt, an
\* invocation is entered only from a prompt, and it is left for the next
\* menu or interactive-mode prompt only after its run was awaited to its end
\* (or a step failed) and the outcome was printed.
C11_OneTaskInFlight == [](C11_State) /\ [][C11_Step]_vars

C11_Witness ==
    /\ pc = "task_returned"
    /\ caller = "interactive"
    /\ nRun = 1 /\ nAwait = 1
    /\ printed = "Task completed"

\* every failure an invocation of run_automation_task can meet
TaskErrors ==
    {"ImportError", NoKeyError, InstallError, SlowMoError, "Browser raised",
     "Agent raised", "arun raised"}

\* a failure met by the invocation was caught and printed, the steps after
\* it were not taken and None is returned to the caller
C14_Caught ==
    err # "none" =>
        /\ err \in TaskErrors
        /\ pc = "task_returned"
        /\ printed = "Task failed"
        /\ ret = None
        /\ err # "arun raised" => nRun = 0

\* C14 as stated: after a failure caught by run_automation_task the user is
\* back at the menu.
C14_BackAtMenu ==
    [][(pc = "task_returned" /\ err # "none") => pc' = "menu"]_vars

\* C14, amended: any failure raised while running a task is caught and
\* printed, the operation is abandoned and the user is returned to the prompt
\* the task was submitted from (the menu after a predefined or custom task,
\* the interactive-mode prompt in interactive mode); the process does not
\* terminate because of it.
C14_FailureCaught ==
    /\ [](C14_Caught)
    /\ [][(pc = "task_returned" /\ err # "none") =>
             /\ pc' = (IF caller = "interactive" THEN "interactive" ELSE "menu")
             /\ pc' \in Prompts]_vars

C14_Witness ==
    /\ pc = "task_returned"
    /\ caller = "interactive"
    /\ err = "Browser raised"
    /\ printed = "Task failed"

\* the answers with which the user enters a key at the prompts of
\* setup_api_keys
AddsKey(inp) ==
    inp.answer = "y" /\ inp.provider \in ValidProviders /\ inp.key # Empty

\* main's call of setup_api_keys with no non-empty secret in the process
\* environment and no key entered ends main with the missing-credential
\* notice; nothing follows the return of main
C15_Step ==
    /\ (NonEmptyKeys(environ) = {}
            /\ \E inp \in SetupInputs : ~AddsKey(inp) /\ MainSetup(inp)) =>
          /\ pc' = "exited"
          /\ notice' = "API key setup required"
          /\ keysOk' = FALSE
    /\ pc = "exited" => pc' = "exited"

\* C15: when no provider has a non-empty secret at launcher start and the
\* user does not add one, the launcher prints the missing-credential notice
\* and main returns: the menu is never shown and no task is dispatched.
C15_MissingCredentialHalts ==
    /\ [][C15_Step]_vars
    /\ [](notice = "API key setup required" =>
             pc = "exited" /\ caller = "none" /\ nSelect = 0 /\ phases = <<>>)

C15_Witness ==
    /\ pc = "exited"
    /\ notice = "API key setup required"
    /\ NonEmptyKeys(environ) = {}
    /\ keysOk = FALSE

\* C16 as stated: with a provider selected, BROWSER_SLOW_MO absent or empty
\* counts as not configured: the Browser is built with the default and the
\* invocation does not fail on the setting.
C16_EmptyIsNotConfigured ==
    (llm # NoLlm /\ environ[SLOW_MO] \in {Unset, Empty}) =>
        /\ err # SlowMoError
        /\ browser.made => browser.slow_mo = DefaultSlowMo

\* C18 as stated: when setup_api_keys returned True, the get_llm_instance
\* call that follows it selects a provider and does not raise the
\* missing-credential error.
C18_SetupTrueThenSelects ==
    (pc = "keys_selected" /\ keysOk = TRUE) =>
        /\ selOut.error # NoKeyError
        /\ selOut.ok => selOut.llm # NoLlm

\* the value a reader of KEY=VALUE lines (the last occurrence wins) finds
\* for the key k in the file f
ReadBack(f, k) == IF f.exists /\ Binds(f, k) # {} THEN FileValue(f, k) ELSE Unset

\* C19 as stated: after update_env_file(key, value) on an existing file,
\* reading the file back gives value for key and, for every other key, the
\* value it had before the call.
C19_RoundTrip ==
    (pc = "upd_done" /\ preFile.exists) =>
        /\ ReadBack(envFile, updKey) = updVal
        /\ \A k \in ApiKeys \ {updKey} : ReadBack(envFile, k) = ReadBack(preFile, k)

\* C20 as stated: a second call of update_env_file with the same key and
\* value leaves the file as the first call left it.
C20_Idempotent ==
    pc = "upd_twice" => envFile = preFile

\* the steps the end-of-setup report lists as failed
Listed == {failedSteps[i] : i \in 1..Len(failedSteps)}

\* C12 as stated: a step whose installation failed is in failed_steps and is
\* listed in the report, and the success message is printed only when no
\* step's installation failed.
C12_FailedStepsReported ==
    pc = "setup_done" =>
        /\ cmdFailed \subseteq Listed
        /\ report = "complete" => cmdFailed = {}

\* C13 as stated: however a step's external command fails, the script does
\* not crash, every step of the list is run and the report is printed.
C13_InstallFailureNonFatal ==
    /\ pc # "setup_crashed"
    /\ pc = "setup_done" => stepNo = Len(Steps(script)) /\ report # "none"

\* C17: when check_termux_environment fails, run_complete_setup returns at
\* once: no step is run, no command is invoked, no file is written (the
\* .env stays as it was) and no report is printed.
C17_HaltsOutsideTermux ==
    /\ [](envOk = "no" =>
             /\ script = "termux"
             /\ pc = "setup_halted"
             /\ stepNo = 0
             /\ failedSteps = <<>>
             /\ invoked = {}
             /\ written = {}
             /\ report = "none")
    /\ [][envOk' = "no" => envFile' = envFile]_vars

C17_Witness ==
    /\ script = "termux"
    /\ envOk = "no"
    /\ pc = "setup_halted"
    /\ envFile.exists

\* the positions inside the while True loop of main: the menu prompt, the
\* handlers of the choices and the task they await
LoopPcs ==
    Prompts \cup {"run_tests", "show_docs", "invalid_choice"} \cup TaskPcs

C21_Step ==
    /\ (pc \notin TaskPcs /\ pc' \in TaskPcs) =>
          installOk = TRUE /\ keysOk = TRUE
    /\ (pc \notin LoopPcs /\ pc' \in LoopPcs) =>
          pc = "main_setup" /\ pc' = "menu" /\ installOk = TRUE /\ keysOk' = TRUE
    /\ (pc \in LoopPcs /\ pc' \notin LoopPcs) => ShowMenu("6")
    /\ pc \in {"menu_setup", "run_tests", "show_docs", "invalid_choice"} => pc' = "menu"
    /\ pc = "predefined" => pc' \in {"menu", "task_called"}
    /\ pc = "interactive" => pc' \in {"menu", "interactive", "task_called"}

\* C21: a task is dispatched only after check_installation and
\* setup_api_keys both returned True in this run of main, and the menu loop
\* is left only by choice 6: the handler of every other choice, valid or
\* not, leads back to the menu prompt.
C21_SetupBeforeDispatch ==
    /\ [](pc \in LoopPcs => installOk = TRUE /\ keysOk = TRUE)
    /\ [][C21_Step]_vars

C21_Witness ==
    /\ pc = "task_called"
    /\ caller = "predefined"
    /\ installOk = TRUE
    /\ keysOk = TRUE

\* C22 as stated, for a .env that holds a key: no step of a setup script
\* changes a .env that exists when the step runs, so the key the user added
\* is still there after the run.
C22_ExistingEnvKept ==
    [][(envFile.exists /\ NonEmptyKeys(FileCredentials(envFile)) # {}) =>
          envFile' = envFile]_vars

\* C23 as stated: when the setup script wrote .env and nobody edited it, a
\* GEMINI_API_KEY equal to the placeholder is not a working key for
\* setup_api_keys and get_llm_instance does not select Gemini with it.
C23_PlaceholderNotConfigured ==
    (pc = "keys_selected" /\ ".env" \in written) =>
        /\ environ[GEMINI] = Placeholder => GEMINI \notin WorkingKeys(environ)
        /\ NonEmptyKeys(environ) = {GEMINI} /\ environ[GEMINI] = Placeholder =>
              keysOk = FALSE
        /\ ~(selOut.ok /\ selOut.llm.provider = ProviderOfKey(GEMINI)
                /\ selOut.llm.api_key = Placeholder)

====
